---- MODULE Spec2Model ----
(***************************************************************************)
(* The assignment-submission HTTP API (Express + Mongoose).                *)
(*                                                                         *)
(* The repository holds four copies of the same server: server.js and      *)
(* unnamed/part_001 (single file, no payment: variant "single"), and       *)
(* unnamed/part_000 and unnamed/part_002 (up to five files, Paystack       *)
(* verification, Transaction collection: variant "paid").  The paid        *)
(* variant is read from part_000: part_002 is the same text with another   *)
(* storage provider, but its submit handler never closes the for loop      *)
(* opened at line 141, so the file does not parse and no server runs it.   *)
(*                                                                         *)
(* Every handler is an async function: it runs atomically up to an await   *)
(* and other requests interleave at the awaits.  One action is one such    *)
(* atomic piece; the arrival of a request is merged with its first awaited *)
(* call.  An awaited call on the store, the gateway or the storage         *)
(* provider either returns or throws.  The upload loop writes only to the  *)
(* storage provider, which no handler reads back, so the whole loop is one *)
(* action.  The requests in flight are a bag of handler locals; a local    *)
(* the handler no longer reads is reset.                                   *)
(*                                                                         *)
(* What the clients have been sent is kept as `last` (the outcome of the   *)
(* request handled most recently) and `ok200` (per token, how many         *)
(* submissions were answered 200).                                         *)
(*                                                                         *)
(* Form fields the handlers only copy into a record (name, department,     *)
(* course, phone, email, score, timestamps) are left out.                  *)
(***************************************************************************)
EXTENDS Integers, Sequences, FiniteSets, Bags, TLC

\* ---- bounds of the model
MaxRequests == 2
NumTokens == 2
NumRefs == 1
MaxAmount == 2

\* ---- program constants
UploadLimitSingle == 1
UploadLimitPaid == 5
UnitPrice == 200
MinorUnits == 100
NoToken == 0
NoRef == 0

VARIABLES variant, up, Token, Submission, Transaction, reqs, nreq, last, ok200

vars == <<variant, up, Token, Submission, Transaction, reqs, nreq, last, ok200>>

Variants == {"single", "paid"}
\* the k-th string "ICT-XXXXXXXX" the generator can draw
TokenStrings == 1..NumTokens
\* what a client can send as token: a string, or nothing (falsy)
TokenInputs == TokenStrings \cup {NoToken}
References == 1..NumRefs
\* expectedAmount as the client sends it: the fee of one file
ExpectedAmounts == {UnitPrice}
\* data.amount as the gateway holds it: the fee of one file or of two, in kobo
GatewayAmounts == {UnitPrice * MinorUnits, 2 * UnitPrice * MinorUnits}
\* what an async handler without try/catch does with a rejected await:
\* Express 4 leaves the request unanswered, Express 5 answers with its
\* default HTML error page, and Node >= 15 ends the process.
UncaughtOutcomes == {"hung", "html500", "crash"}

UploadLimit == IF variant = "single" THEN UploadLimitSingle ELSE UploadLimitPaid
\* how many files a request carries: none, one, or as many as multer lets in
FileCounts == {0, 1, UploadLimit}

\* ---- the store
tokenSchema(t) == [token |-> t, used |-> FALSE]

findOne(t) == {d \in Token : d.token = t}

\* no unique index on token
TokenCreateNoIndex(t) == TRUE

\* Token.create under the unique index on token: a duplicate key throws
TokenCreateOk(t) == findOne(t) = {}

\* the token is consumed by deleting its record
tokenDocSaveDeletes(t) == {d \in Token : d.token # t}

\* the flag is never written
tokenDocSaveForgotten(t) == Token

\* tokenDoc.used = true; tokenDoc.save(): updates the document of that _id
tokenDocSave(t) == {IF d.token = t THEN [d EXCEPT !.used = TRUE] ELSE d : d \in Token}

\* no unique index on reference
TransactionCreateNoIndex(ref) == TRUE

\* Transaction.create under the unique index on reference: a duplicate key throws
TransactionCreateOk(ref) == \A d \in BagToSet(Transaction) : d.reference # ref

\* ---- requests
\* a handler's locals
Locals ==
  [kind |-> "none", pc |-> "", token |-> NoToken, amount |-> 0, files |-> 0,
   paymentRef |-> NoRef, reference |-> NoRef, expectedAmount |-> 0, tokens |-> <<>>]

\* no request handled yet
NoResponse ==
  [kind |-> "none", token |-> NoToken, status |-> 0, body |-> "", msg |-> "",
   records |-> <<>>]

\* res.status(s).json({ message: m })
Respond(kind, t, s, m) ==
  [NoResponse EXCEPT !.kind = kind, !.token = t, !.status = s, !.body = "message",
                     !.msg = m]

\* a rejected await nobody catches
Uncaught(kind, o) ==
  IF o = "html500"
  THEN [NoResponse EXCEPT !.kind = kind, !.status = 500, !.body = "html"]
  ELSE [NoResponse EXCEPT !.kind = kind, !.body = "none"]

Arrives == up /\ nreq < MaxRequests

\* the store the server starts on: empty, or holding one token that an earlier
\* run generated and nobody has used
InitialStores == {{}, {tokenSchema(1)}}

Init ==
  /\ variant \in Variants
  /\ up = TRUE
  /\ Token \in InitialStores
  /\ Submission = EmptyBag
  /\ Transaction = EmptyBag
  /\ reqs = EmptyBag
  /\ nreq = 0
  /\ last = NoResponse
  /\ ok200 = [t \in TokenStrings |-> 0]

\* a request answered (or abandoned) in the step it arrives
Answer(resp) ==
  /\ nreq' = nreq + 1
  /\ last' = resp
  /\ reqs' = reqs

\* a request that awaits again after its first call
Await(q) ==
  /\ nreq' = nreq + 1
  /\ last' = last
  /\ reqs' = reqs (+) SetToBag({q})

\* a request in flight goes on to its next await
Continue(q, q2) ==
  /\ nreq' = nreq
  /\ last' = last
  /\ reqs' = (reqs (-) SetToBag({q})) (+) SetToBag({q2})

\* a request in flight is answered (or abandoned)
Finish(q, resp) ==
  /\ nreq' = nreq
  /\ last' = resp
  /\ reqs' = reqs (-) SetToBag({q})

InFlight(kind, pc) == {q \in BagToSet(reqs) : q.kind = kind /\ q.pc = pc}

\* ---- POST /api/tokens/validate
\* the used flag is never looked at
ValidateResponseIgnoresUsed(t, ok) ==
  IF t = NoToken THEN Respond("validate", t, 400, "Token is required")
  ELSE IF ~ok THEN Respond("validate", t, 500, "Server error")
  ELSE IF findOne(t) = {} THEN Respond("validate", t, 400, "Invalid token")
  ELSE Respond("validate", t, 200, "Token valid")

\* ok: Token.findOne returns
ValidateResponse(t, ok) ==
  IF t = NoToken THEN Respond("validate", t, 400, "Token is required")
  ELSE IF ~ok THEN Respond("validate", t, 500, "Server error")
  ELSE IF findOne(t) = {} THEN Respond("validate", t, 400, "Invalid token")
  ELSE IF \E d \in findOne(t) : d.used
       THEN Respond("validate", t, 400, "Token already used")
  ELSE Respond("validate", t, 200, "Token valid")

\* ok: Token.findOne returns; without a token the lookup is never started, so
\* there is nothing for it to throw
Validate(t, ok) ==
  /\ Arrives
  /\ t # NoToken \/ ok
  /\ Answer(ValidateResponse(t, ok))
  /\ UNCHANGED <<variant, up, Token, Submission, Transaction, ok200>>

\* ---- POST /api/tokens/generate
\* !amount || amount <= 0
GenerateInvalid(amount) == amount = 0 \/ amount <= 0

GenerateStart(amount) ==
  /\ Arrives
  /\ IF GenerateInvalid(amount)
     THEN Answer(Respond("generate", NoToken, 400, "Invalid amount"))
     ELSE Await([Locals EXCEPT !.kind = "generate", !.pc = "create",
                               !.amount = amount])
  /\ UNCHANGED <<variant, up, Token, Submission, Transaction, ok200>>

\* res.json(tokens)
GenerateResponse(tokens) ==
  [NoResponse EXCEPT !.kind = "generate", !.status = 200, !.body = "records",
                     !.records = [k \in 1..Len(tokens) |-> tokenSchema(tokens[k])]]

\* tokens.push(await Token.create({ token: <random string> })), then the loop
\* test, and the response after the last pass
GenerateCreated(q, s) ==
  IF Len(q.tokens) + 1 < q.amount
  THEN Continue(q, [q EXCEPT !.tokens = Append(@, s)])
  ELSE Finish(q, GenerateResponse(Append(q.tokens, s)))

\* Token.create throws: caught in the single variant, by nobody in the paid one
GenerateFailed(q, o) ==
  IF variant = "single"
  THEN /\ Finish(q, Respond("generate", NoToken, 500, "Token generation failed"))
       /\ up' = up
  ELSE /\ Finish(q, Uncaught("generate", o))
       /\ up' = (o # "crash")

\* s: the string drawn; ok: the store takes the insert
GenerateCreate(q, s, ok) ==
  /\ up
  /\ q \in InFlight("generate", "create")
  /\ IF ok /\ TokenCreateOk(s)
     THEN /\ Token' = Token \cup {tokenSchema(s)}
          /\ up' = up
          /\ GenerateCreated(q, s)
     ELSE /\ Token' = Token
          /\ \E o \in UncaughtOutcomes : GenerateFailed(q, o)
  /\ UNCHANGED <<variant, Submission, Transaction, ok200>>

\* ---- GET /api/submissions, /api/tokens, /api/transactions
Collections ==
  IF variant = "single" THEN {"submissions", "tokens"}
  ELSE {"submissions", "tokens", "transactions"}

\* the route wraps its query in try/catch
ListCaught(coll) == variant = "single" \/ coll = "transactions"

\* ok: Model.find().sort() returns
List(coll, ok) ==
  /\ Arrives
  /\ IF ok
     THEN /\ Answer([NoResponse EXCEPT !.kind = coll, !.status = 200,
                                       !.body = "records"])
          /\ up' = up
     ELSE IF ListCaught(coll)
     THEN /\ Answer(Respond(coll, NoToken, 500, "Failed to fetch"))
          /\ up' = up
     ELSE \E o \in UncaughtOutcomes :
            /\ Answer(Uncaught(coll, o))
            /\ up' = (o # "crash")
  /\ UNCHANGED <<variant, Token, Submission, Transaction, ok200>>

\* ---- GET /api/download (unnamed/part_000 only)
\* ok: axios.get(url) returns
Download(ok) ==
  /\ Arrives
  /\ variant = "paid"
  /\ IF ok
     THEN /\ Answer([NoResponse EXCEPT !.kind = "download", !.status = 200,
                                       !.body = "stream"])
          /\ up' = up
     ELSE \E o \in UncaughtOutcomes :
            /\ Answer(Uncaught("download", o))
            /\ up' = (o # "crash")
  /\ UNCHANGED <<variant, Token, Submission, Transaction, ok200>>

\* ---- POST /api/payment/verify
\* the gateway's answer: the call throws, or returns data.status, data.amount
GatewayAnswers ==
  {[thrown |-> TRUE, status |-> "", amount |-> 0]} \cup
  [thrown : {FALSE}, status : {"success", "failed"}, amount : GatewayAmounts]

\* the amount is not compared
VerifyRejectionStatusOnly(expectedAmount, gw) ==
  IF gw.status # "success" THEN "Payment not successful" ELSE ""

\* the checks on the gateway's answer; "" lets the handler go on
VerifyRejection(expectedAmount, gw) ==
  IF gw.status # "success" THEN "Payment not successful"
  ELSE IF gw.amount # expectedAmount * MinorUnits THEN "Amount mismatch"
  ELSE ""

VerifyFailed == Respond("verify", NoToken, 500, "Payment verification failed")

VerifyStart(ref, amt, gw) ==
  /\ Arrives
  /\ variant = "paid"
  /\ IF gw.thrown THEN Answer(VerifyFailed)
     ELSE IF VerifyRejection(amt, gw) # ""
     THEN Answer(Respond("verify", NoToken, 400, VerifyRejection(amt, gw)))
     ELSE Await([Locals EXCEPT !.kind = "verify", !.pc = "createTx",
                               !.reference = ref, !.expectedAmount = amt])
  /\ UNCHANGED <<variant, up, Token, Submission, Transaction, ok200>>

transactionSchema(q) ==
  [reference |-> q.reference, amount |-> q.expectedAmount, status |-> "success"]

\* ok: the store takes the insert
VerifyCreate(q, ok) ==
  /\ up
  /\ q \in InFlight("verify", "createTx")
  /\ IF ok /\ TransactionCreateOk(q.reference)
     THEN /\ Transaction' = Transaction (+) SetToBag({transactionSchema(q)})
          /\ Finish(q, [NoResponse EXCEPT !.kind = "verify", !.status = 200,
                                          !.body = "verified"])
     ELSE /\ Transaction' = Transaction
          /\ Finish(q, VerifyFailed)
  /\ UNCHANGED <<variant, up, Token, Submission, ok200>>

\* ---- POST /api/submissions
PaymentRefs == IF variant = "single" THEN {NoRef} ELSE References \cup {NoRef}

NoFilesMessage == IF variant = "single" THEN "File is required" ELSE "No files uploaded"

\* !tokenDoc || tokenDoc.used
TokenRejected(t) == findOne(t) = {} \/ \E d \in findOne(t) : d.used

SubmitFailed(t) == Respond("submit", t, 500, "Submission failed")

\* nf: the number of files multer hands over; ok: Token.findOne returns (the
\* lookup is not started for a request without files)
SubmitStart(t, nf, pref, ok) ==
  /\ Arrives
  /\ nf = 0 => ok
  /\ IF nf = 0 THEN Answer(Respond("submit", t, 400, NoFilesMessage))
     ELSE IF ~ok THEN Answer(SubmitFailed(t))
     ELSE IF TokenRejected(t)
     THEN Answer(Respond("submit", t, 400, "Invalid or used token"))
     ELSE Await([Locals EXCEPT !.kind = "submit", !.pc = "upload", !.token = t,
                               !.files = nf, !.paymentRef = pref])
  /\ UNCHANGED <<variant, up, Token, Submission, Transaction, ok200>>

\* the token is marked before the files are uploaded
SubmitUploadMarksFirst(q, failed) ==
  /\ up
  /\ q \in {e \in BagToSet(reqs) : e.kind = "submit" /\ e.pc = "upload"}
  /\ failed \in 0..q.files
  /\ IF failed # 0
     THEN reqs' = reqs (-) SetToBag({q}) /\ last' = Respond("submit", q.token, 500, "Submission failed")
     ELSE reqs' = (reqs (-) SetToBag({q})) (+) SetToBag({[q EXCEPT !.pc = "create"]})
          /\ last' = last
  /\ Token' = {IF d.token = q.token THEN [d EXCEPT !.used = TRUE] ELSE d : d \in Token}
  /\ UNCHANGED <<variant, up, nreq, Submission, Transaction, ok200>>

\* the upload loop: failed = 0 when every upload returns, else the file whose
\* upload throws
SubmitUpload(q, failed) ==
  /\ up
  /\ q \in InFlight("submit", "upload")
  /\ failed \in 0..q.files
  /\ IF failed # 0 THEN Finish(q, SubmitFailed(q.token))
     ELSE Continue(q, [q EXCEPT !.pc = "create"])
  /\ UNCHANGED <<variant, up, Token, Submission, Transaction, ok200>>

\* uploadedFiles holds every file of the request when the loop ends
\* one fee whatever the number of files
submissionSchemaFlatFee(q) ==
  IF variant = "single"
  THEN [token |-> q.token, fileName |-> 1]
  ELSE [token |-> q.token, files |-> [k \in 1..q.files |-> k],
        fileCount |-> q.files, amountPaid |-> UnitPrice,
        paymentRef |-> q.paymentRef]

submissionSchema(q) ==
  IF variant = "single"
  THEN [token |-> q.token, fileName |-> 1]
  ELSE LET uploadedFiles == [k \in 1..q.files |-> k]
           fileCount == Len(uploadedFiles)
           amountPaid == fileCount * UnitPrice
       IN  [token |-> q.token, files |-> uploadedFiles,
            fileCount |-> fileCount, amountPaid |-> amountPaid,
            paymentRef |-> q.paymentRef]

\* the token is marked before the record is inserted
SubmitCreateMarksFirst(q, ok) ==
  /\ up
  /\ q \in InFlight("submit", "create")
  /\ Token' = tokenDocSave(q.token)
  /\ IF ok
     THEN /\ Submission' = Submission (+) SetToBag({submissionSchema(q)})
          /\ Continue(q, [Locals EXCEPT !.kind = "submit", !.pc = "save",
                                        !.token = q.token])
     ELSE /\ Submission' = Submission
          /\ Finish(q, SubmitFailed(q.token))
  /\ UNCHANGED <<variant, up, Transaction, ok200>>

\* ok: the store takes the insert
SubmitCreate(q, ok) ==
  /\ up
  /\ q \in InFlight("submit", "create")
  /\ IF ok
     THEN /\ Submission' = Submission (+) SetToBag({submissionSchema(q)})
          /\ Continue(q, [Locals EXCEPT !.kind = "submit", !.pc = "save",
                                        !.token = q.token])
     ELSE /\ Submission' = Submission
          /\ Finish(q, SubmitFailed(q.token))
  /\ UNCHANGED <<variant, up, Token, Transaction, ok200>>

SubmitOkMessage ==
  IF variant = "single" THEN "Assignment submitted successfully"
  ELSE "Submission successful"

\* ok: the store takes the update
SubmitSave(q, ok) ==
  /\ up
  /\ q \in InFlight("submit", "save")
  /\ IF ok
     THEN /\ Token' = tokenDocSave(q.token)
          /\ Finish(q, Respond("submit", q.token, 200, SubmitOkMessage))
          /\ ok200' = [ok200 EXCEPT ![q.token] = @ + 1]
     ELSE /\ Token' = Token
          /\ Finish(q, SubmitFailed(q.token))
          /\ ok200' = ok200
  /\ UNCHANGED <<variant, up, Submission, Transaction>>

Next ==
  \/ \E t \in TokenInputs, ok \in BOOLEAN : Validate(t, ok)
  \/ \E amount \in (-1)..MaxAmount : GenerateStart(amount)
  \/ \E q \in BagToSet(reqs), s \in TokenStrings, ok \in BOOLEAN :
       GenerateCreate(q, s, ok)
  \/ \E coll \in Collections, ok \in BOOLEAN : List(coll, ok)
  \/ \E ok \in BOOLEAN : Download(ok)
  \/ \E ref \in References, amt \in ExpectedAmounts, gw \in GatewayAnswers :
       VerifyStart(ref, amt, gw)
  \/ \E q \in BagToSet(reqs), ok \in BOOLEAN : VerifyCreate(q, ok)
  \/ \E t \in TokenInputs, nf \in FileCounts, pref \in PaymentRefs, ok \in BOOLEAN :
       SubmitStart(t, nf, pref, ok)
  \/ \E q \in BagToSet(reqs) : \E failed \in 0..q.files : SubmitUpload(q, failed)
  \/ \E q \in BagToSet(reqs), ok \in BOOLEAN : SubmitCreate(q, ok)
  \/ \E q \in BagToSet(reqs), ok \in BOOLEAN : SubmitSave(q, ok)

Spec == Init /\ [][Next]_vars

\* ---------------------------------------------------------------- claims

\* what validate owes a client whose lookup returned, from the store alone
ValidateExpected(t) ==
  IF \A d \in Token : d.token # t THEN Respond("validate", t, 400, "Invalid token")
  ELSE IF \E d \in Token : d.token = t /\ d.used
       THEN Respond("validate", t, 400, "Token already used")
  ELSE Respond("validate", t, 200, "Token valid")

\* C1 (as stated): for every token string and every state of the store,
\* validate answers 200 'Token valid' iff a record with that string exists and
\* is unused, 400 'Invalid token' when none exists and 400 'Token already
\* used' when the record is used.
C1_ValidateAsStated ==
  [][\A t \in TokenInputs, ok \in BOOLEAN :
       Validate(t, ok) => last' = ValidateExpected(t)]_vars

\* C1 (amended): for every non-empty token string whose lookup returns, validate
\* answers 200 'Token valid' iff a record with that string exists and is
\* unused, 400 'Invalid token' when none exists and 400 'Token already used'
\* when the record is used; an empty or missing token is answered 400 'Token is
\* required', a lookup that throws 500 'Server error'; the store is not changed.
C1_Validate ==
  [][\A t \in TokenInputs, ok \in BOOLEAN :
       Validate(t, ok) =>
         /\ t # NoToken /\ ok => last' = ValidateExpected(t)
         /\ t = NoToken => last' = Respond("validate", t, 400, "Token is required")
         /\ t # NoToken /\ ~ok => last' = Respond("validate", t, 500, "Server error")
         /\ last'.status = 200 <=> ok /\ \E d \in Token : d.token = t /\ ~d.used
         /\ Token' = Token]_vars

\* a validate of a used token was answered 'Token already used'
C1_Witness ==
  /\ last = Respond("validate", last.token, 400, "Token already used")
  /\ \E d \in Token : d.token = last.token /\ d.used

\* the Submission records whose token field is t
SubmissionsOf(t) ==
  BagCardinality([d \in {e \in BagToSet(Submission) : e.token = t} |-> Submission[d]])

TokenUsed(t) == \E d \in Token : d.token = t /\ d.used

\* C2: under any interleaving of submissions presenting the same token, at
\* most one Submission record is ever created whose token field is that token.
C2_TokenConsumedOnce == \A t \in TokenStrings : SubmissionsOf(t) <= 1

\* C3 (as stated): after a submission answered 200 for token t, the record of t
\* has used = true, every later validate of t is answered 400 'Token already
\* used', and every later submission presenting t is answered 400 and creates
\* no Submission record.
C3_AfterSuccessAsStated ==
  /\ [](\A t \in TokenStrings : ok200[t] > 0 => TokenUsed(t))
  /\ [][\A t \in TokenStrings : ok200[t] > 0 =>
          /\ \A ok \in BOOLEAN :
               Validate(t, ok) =>
                 last' = Respond("validate", t, 400, "Token already used")
          /\ \A nf \in FileCounts, pref \in PaymentRefs, ok \in BOOLEAN :
               SubmitStart(t, nf, pref, ok) =>
                 /\ last'.kind = "submit" /\ last'.status = 400
                 /\ reqs' = reqs
                 /\ Submission' = Submission]_vars

\* C3 (amended): after a submission answered 200 for token t, the record of t
\* has used = true; every later validate of t whose lookup returns is answered
\* 400 'Token already used' (500 'Server error' when the lookup throws); every
\* later submission presenting t is answered at once, with 400 when it carries
\* no file or its lookup returns and with 500 when the lookup throws, never
\* gets to the upload and creates no Submission record.
C3_AfterSuccess ==
  /\ [](\A t \in TokenStrings : ok200[t] > 0 => TokenUsed(t))
  /\ [][\A t \in TokenStrings : ok200[t] > 0 =>
          /\ \A ok \in BOOLEAN :
               Validate(t, ok) =>
                 last' = IF ok THEN Respond("validate", t, 400, "Token already used")
                         ELSE Respond("validate", t, 500, "Server error")
          /\ \A nf \in FileCounts, pref \in PaymentRefs, ok \in BOOLEAN :
               SubmitStart(t, nf, pref, ok) =>
                 /\ last'.kind = "submit" /\ last'.token = t
                 /\ last'.status = (IF ok THEN 400 ELSE 500)
                 /\ reqs' = reqs
                 /\ Submission' = Submission]_vars

\* after a submission answered 200, a later one with the same token was refused
C3_Witness ==
  \E t \in TokenStrings :
    /\ ok200[t] > 0
    /\ last = Respond("submit", t, 400, "Invalid or used token")

\* the step takes request q out of the requests in flight at its present
\* await, or puts q among them
Leaves(q) == CopiesIn(q, reqs') < CopiesIn(q, reqs)
Enters(q) == CopiesIn(q, reqs') > CopiesIn(q, reqs)

\* C4: a submission that fails before its Submission record is created (no
\* file, token unknown or used, lookup, upload or insert throwing) is answered
\* with an error, and no step it has taken created a Submission record or
\* changed a token's used flag; a submission is answered on arrival exactly
\* when it carries no file, its lookup throws or its token is unknown or used.
C4_FailureLeavesStore ==
  [][/\ nreq' # nreq /\ reqs' = reqs /\ last'.kind = "submit" =>
          /\ Submission' = Submission /\ Token' = Token
          /\ last'.status \in {400, 500}
          /\ \A nf \in FileCounts, pref \in PaymentRefs, ok \in BOOLEAN :
               SubmitStart(last'.token, nf, pref, ok) =>
                 \/ nf = 0
                 \/ ~ok
                 \/ ~(\E d \in Token : d.token = last'.token /\ ~d.used)
     /\ \A q \in BagToSet(reqs') :
          nreq' # nreq /\ Enters(q) /\ q.kind = "submit" =>
            /\ SubmitStart(q.token, q.files, q.paymentRef, TRUE)
            /\ q.files # 0
            /\ \E d \in Token : d.token = q.token /\ ~d.used
            /\ Submission' = Submission /\ Token' = Token
     /\ \A q \in InFlight("submit", "upload") :
          Leaves(q) =>
            \A failed \in 0..q.files :
              SubmitUpload(q, failed) =>
                /\ Submission' = Submission /\ Token' = Token
                /\ failed # 0 =>
                     last' = Respond("submit", q.token, 500, "Submission failed")
     /\ \A q \in InFlight("submit", "create") :
          Leaves(q) /\ SubmitCreate(q, FALSE) =>
            /\ Submission' = Submission /\ Token' = Token
            /\ last' = Respond("submit", q.token, 500, "Submission failed")]_vars

\* a submission with an unused token failed, and the store is as it was
C4_Witness ==
  /\ last.kind = "submit" /\ last.status = 500
  /\ \E d \in Token : d.token = last.token /\ ~d.used
  /\ Submission = EmptyBag
  /\ reqs = EmptyBag

\* C5: in the payment variants every Submission record was preceded by a
\* successful payment verification: a Transaction record exists for its
\* paymentRef.
C5_PaidBeforeSubmission ==
  variant = "paid" =>
    \A d \in BagToSet(Submission) :
      \E x \in BagToSet(Transaction) : x.reference = d.paymentRef

TokensOf(store) == {d.token : d \in store}
UsedOf(store) == {d.token : d \in {e \in store : e.used}}

\* C6: whatever the requests, no Token record is ever removed and a used flag
\* never goes back to false: the set of existing tokens and the set of used
\* tokens only grow.
C6_TokensOnlyGrow ==
  [][/\ TokensOf(Token) \subseteq TokensOf(Token')
     /\ UsedOf(Token) \subseteq UsedOf(Token')
     /\ \A t \in TokensOf(Token') : Cardinality({d \in Token' : d.token = t}) = 1]_vars

\* a token was generated and another one was used
C6_Witness ==
  /\ UsedOf(Token) # {}
  /\ Cardinality(Token) >= 2
  /\ last.kind = "submit" /\ last.status = 200

\* the Transaction records whose reference is ref
TransactionsOf(ref) ==
  BagCardinality([d \in {e \in BagToSet(Transaction) : e.reference = ref} |->
                    Transaction[d]])

\* C7: there is at most one Transaction record per gateway reference, and a
\* verify that is answered 200 leaves exactly one record for its reference,
\* however many verifies of that reference ran before or beside it.
C7_OneTransactionPerReference ==
  /\ [](\A ref \in References : TransactionsOf(ref) <= 1)
  /\ [][\A q \in InFlight("verify", "createTx"), ok \in BOOLEAN :
          Leaves(q) /\ VerifyCreate(q, ok) =>
            /\ last'.status = 200 =>
                 BagCardinality([d \in {e \in BagToSet(Transaction') :
                                          e.reference = q.reference} |->
                                   Transaction'[d]]) = 1
            /\ TransactionsOf(q.reference) >= 1 =>
                 Transaction' = Transaction /\ last'.status = 500]_vars

\* a reference has its record, and another verify of it passed the gateway
\* checks and is about to insert
C7_Witness ==
  \E q \in BagToSet(reqs) :
    /\ q.kind = "verify" /\ q.pc = "createTx"
    /\ TransactionsOf(q.reference) = 1

\* C8: verify creates a Transaction record only when the gateway reported
\* status 'success' and an amount equal to expectedAmount x 100; a status other
\* than success is answered 400 'Payment not successful', a different amount
\* 400 'Amount mismatch', and in both cases the Transaction records are
\* unchanged.
C8_VerifyChecks ==
  [][/\ \A ref \in References, amt \in ExpectedAmounts, gw \in GatewayAnswers :
          VerifyStart(ref, amt, gw) =>
            /\ Transaction' = Transaction
            /\ ~gw.thrown /\ gw.status # "success" =>
                 /\ last' = Respond("verify", NoToken, 400, "Payment not successful")
                 /\ reqs' = reqs
            /\ ~gw.thrown /\ gw.status = "success" /\ gw.amount # amt * 100 =>
                 /\ last' = Respond("verify", NoToken, 400, "Amount mismatch")
                 /\ reqs' = reqs
            /\ reqs' # reqs =>
                 ~gw.thrown /\ gw.status = "success" /\ gw.amount = amt * 100
     /\ Transaction' # Transaction =>
          \E q \in BagToSet(reqs) :
            /\ q.kind = "verify" /\ q.pc = "createTx"
            /\ reqs' = reqs (-) SetToBag({q})
            /\ Transaction' = Transaction (+) SetToBag(
                 {[reference |-> q.reference, amount |-> q.expectedAmount,
                   status |-> "success"]})]_vars

\* a verify was refused for its amount and no Transaction record exists
C8_Witness ==
  /\ last = Respond("verify", NoToken, 400, "Amount mismatch")
  /\ Transaction = EmptyBag
  /\ reqs = EmptyBag

\* C9: every failure of a handler is caught at the request boundary: whatever
\* throws during a request, the client is sent an error status with a JSON
\* {message} body, so no request is left without a response.
C9_EveryFailureAnswered == last.body # "none" /\ last.body # "html" /\ up

Distinct(seq) == \A i, j \in 1..Len(seq) : i # j => seq[i].token # seq[j].token

\* C10 (as stated): for every amount > 0 generate responds with exactly `amount`
\* Token records, pairwise distinct in their token string and each unused, and
\* the store grows by exactly those records; for amount missing or <= 0 it
\* responds 400 'Invalid amount' and creates no token.
C10_GenerateAsStated ==
  [][/\ \A amount \in (-1)..MaxAmount :
          GenerateStart(amount) =>
            /\ Token' = Token
            /\ amount <= 0 =>
                 /\ last' = Respond("generate", NoToken, 400, "Invalid amount")
                 /\ reqs' = reqs
     /\ \A q \in InFlight("generate", "create"), s \in TokenStrings, ok \in BOOLEAN :
          Leaves(q) /\ GenerateCreate(q, s, ok) =>
            /\ Token' = Token \cup {[token |-> s, used |-> FALSE]}
            /\ Token' # Token
            /\ reqs' = reqs (-) SetToBag({q}) =>
                 /\ last'.kind = "generate" /\ last'.status = 200
                 /\ Len(last'.records) = q.amount
                 /\ Distinct(last'.records)
                 /\ \A k \in 1..Len(last'.records) : ~last'.records[k].used]_vars

\* C10 (amended): for every whole amount > 0, a generate request whose inserts
\* all succeed responds 200 with exactly `amount` Token records, pairwise
\* distinct in their token string and each unused, and each insert added
\* exactly one of them to the store; when a drawn string is already in the store
\* or the store refuses an insert the request ends there without a 200, and the
\* tokens it had created stay in the store; for amount missing or <= 0 it
\* responds 400 'Invalid amount' and creates no token.
C10_Generate ==
  /\ [](\A q \in BagToSet(reqs) :
          q.kind = "generate" =>
            /\ Len(q.tokens) < q.amount
            /\ \A i, j \in 1..Len(q.tokens) : i # j => q.tokens[i] # q.tokens[j]
            /\ \A i \in 1..Len(q.tokens) : q.tokens[i] \in TokensOf(Token))
  /\ [][/\ \A amount \in (-1)..MaxAmount :
             nreq' # nreq /\ GenerateStart(amount) =>
               /\ Token' = Token
               /\ amount <= 0 =>
                    /\ last' = Respond("generate", NoToken, 400, "Invalid amount")
                    /\ reqs' = reqs
               /\ amount > 0 => reqs' # reqs
        /\ \A q \in InFlight("generate", "create"), s \in TokenStrings, ok \in BOOLEAN :
             Leaves(q) /\ GenerateCreate(q, s, ok) =>
               IF ok /\ s \notin TokensOf(Token)
               THEN /\ Token' = Token \cup {[token |-> s, used |-> FALSE]}
                    /\ reqs' = reqs (-) SetToBag({q}) =>
                         /\ last'.kind = "generate" /\ last'.status = 200
                         /\ Len(last'.records) = q.amount
                         /\ Distinct(last'.records)
                         /\ \A k \in 1..Len(last'.records) :
                              /\ ~last'.records[k].used
                              /\ last'.records[k].token \in TokensOf(Token')
               ELSE /\ Token' = Token
                    /\ reqs' = reqs (-) SetToBag({q})
                    /\ last'.kind = "generate" /\ last'.status # 200]_vars

\* a generate of two tokens was answered with its two records
C10_Witness ==
  /\ last.kind = "generate" /\ last.status = 200
  /\ Len(last.records) = 2
  /\ \A k \in 1..2 : last.records[k].token \in TokensOf(Token)

\* C11: in the fee-charging variant every Submission record has a fileCount
\* equal to the number of entries of its files sequence, between 1 and 5, and
\* an amountPaid of fileCount x 200.
C11_FeeMatchesFiles ==
  variant = "paid" =>
    \A d \in BagToSet(Submission) :
      /\ d.fileCount = Len(d.files)
      /\ d.fileCount \in 1..UploadLimitPaid
      /\ d.amountPaid = d.fileCount * UnitPrice

\* a submission of five files is on record with its fee of 1000
C11_Witness ==
  /\ variant = "paid"
  /\ \E d \in BagToSet(Submission) :
       d.fileCount = UploadLimitPaid /\ d.amountPaid = UploadLimitPaid * UnitPrice

\* C12: a Submission record is created atomically once per successful
\* submission: whenever no submission is in the middle of its handler, the
\* Submission records of each token are as many as the submissions of it that
\* were answered 200 (so a request answered with an error, a failed token save
\* included, has left no record), and every record's token is marked used.
C12_RecordsMatchSuccesses ==
  (\A q \in BagToSet(reqs) : q.kind # "submit") =>
    /\ \A t \in TokenStrings : SubmissionsOf(t) = ok200[t]
    /\ \A d \in BagToSet(Submission) : TokenUsed(d.token)

\* C13: marking the token used is the last state change of a submission: a
\* used flag is set only by the save of a request that has passed the token
\* check, every upload and the insert of its Submission record, in that order,
\* so a token with used = true always has at least one Submission record
\* whose token field equals it.
C13_MarkUsedLast ==
  /\ [](\A d \in Token : d.used => SubmissionsOf(d.token) >= 1)
  /\ [][/\ UsedOf(Token') # UsedOf(Token) =>
             \E q \in InFlight("submit", "save") :
               /\ SubmitSave(q, TRUE)
               /\ UsedOf(Token') = UsedOf(Token) \cup {q.token}
               /\ SubmissionsOf(q.token) >= 1
        /\ \A q \in BagToSet(reqs') :
             Enters(q) /\ q.kind = "submit" =>
               /\ Token' = Token
               /\ q.pc = "upload" =>
                    /\ nreq' # nreq
                    /\ \E d \in Token : d.token = q.token /\ ~d.used
               /\ q.pc = "create" =>
                    \E q0 \in InFlight("submit", "upload") :
                      q0.token = q.token /\ SubmitUpload(q0, 0)
               /\ q.pc = "save" =>
                    \E q0 \in InFlight("submit", "create") :
                      /\ q0.token = q.token /\ SubmitCreate(q0, TRUE)
                      /\ Submission' = Submission (+) SetToBag({submissionSchema(q0)})]_vars

\* a token is used, its one Submission record is in the store, and the request
\* that marked it has been answered 200
C13_Witness ==
  /\ reqs = EmptyBag
  /\ last.kind = "submit" /\ last.status = 200
  /\ \E d \in Token : d.used /\ d.token = last.token /\ SubmissionsOf(d.token) = 1
====
